---- MODULE Spec2Model ----
(***************************************************************************)
(* Model of cortex_agents.py: the SSE decoder/aggregator                   *)
(* (process_sse_response), the statement executor (execute_sql) and the    *)
(* tool entry point that assembles the response (run_cortex_agents).       *)
(*                                                                         *)
(* Python/JSON values are tagged records:                                  *)
(*   None/null [k |-> "null"]      bool  [k |-> "bool", b |-> ...]         *)
(*   number    [k |-> "num", n]    str   [k |-> "str", s |-> <<chars>>]    *)
(*   list      [k |-> "list", items |-> <<values>>]                        *)
(*   dict      [k |-> "dict", fields |-> record keyed by field name]       *)
(* A dict built at run time with computed keys (dict(zip(...)), the error  *)
(* row) is [k |-> "pydict", pairs |-> << <<key, value>>, ... >>].          *)
(* Strings are sequences of one-character strings.                         *)
(***************************************************************************)
EXTENDS Integers, Sequences, FiniteSets, TLC

VARIABLES pc, configured, runOutcome, stream, agg, streamOpen, execOpen,
          execCalls, statement, execOutcome, results_table,
          results_table_str, response, exception

vars == <<pc, configured, runOutcome, stream, agg, streamOpen, execOpen,
          execCalls, statement, execOutcome, results_table,
          results_table_str, response, exception>>

(* ------------------------------ values ------------------------------- *)
None == [k |-> "null"]
Bool(b) == [k |-> "bool", b |-> b]
Num(n) == [k |-> "num", n |-> n]
Str(s) == [k |-> "str", s |-> s]
List(items) == [k |-> "list", items |-> items]
Dict(fields) == [k |-> "dict", fields |-> fields]
PyDict(pairs) == [k |-> "pydict", pairs |-> pairs]
EmptyDict == Dict(<<>>)

IsStr(v) == v.k = "str"
IsList(v) == v.k = "list"
IsDict(v) == v.k = "dict"

\* d.get(key, default) on a dict d
Get(d, key, default) ==
  IF key \in DOMAIN d.fields THEN d.fields[key] ELSE default

\* Python truthiness of a value
Truthy(v) ==
  CASE v.k = "null" -> FALSE
    [] v.k = "bool" -> v.b
    [] v.k = "num" -> v.n # 0
    [] v.k = "str" -> v.s # <<>>
    [] v.k = "list" -> v.items # <<>>
    [] v.k = "dict" -> DOMAIN v.fields # {}
    [] OTHER -> TRUE

(* ------------------------- string literals --------------------------- *)
TYPE_TEXT == <<"t","e","x","t">>
TYPE_TOOL_RESULTS == <<"t","o","o","l","_","r","e","s","u","l","t","s">>
TYPE_JSON == <<"j","s","o","n">>
NO_TEXT == <<"N","o"," ","t","e","x","t"," ","r","e","s","p","o","n","s","e",
             " ","g","e","n","e","r","a","t","e","d",".">>
NO_SQL_GENERATED == <<"N","O","_","S","Q","L","_","G","E","N","E","R","A","T",
                      "E","D">>
SQL_EXECUTION_FAILED == <<"S","Q","L"," ","e","x","e","c","u","t","i","o","n",
                          " ","f","a","i","l","e","d",":"," ">>
SQL_API_ERROR == <<"S","Q","L"," ","A","P","I"," ","e","r","r","o","r",":"," ">>
KEY_ERROR == <<"e","r","r","o","r">>

(* ----------------------- raw lines of the stream --------------------- *)
\* A raw line is a sequence of tokens: whitespace, the "data:" marker, some
\* other protocol text, the "[DONE]" sentinel, text that is not JSON, or the
\* serialisation of a JSON document.
WS == [t |-> "ws"]
MARKER == [t |-> "data:"]
OTHER_TEXT == [t |-> "other"]
DONE == [t |-> "[DONE]"]
JUNK == [t |-> "junk"]
Json(doc) == [t |-> "json", doc |-> doc]

RECURSIVE LStrip(_)
LStrip(l) == IF l # <<>> /\ Head(l) = WS THEN LStrip(Tail(l)) ELSE l

RECURSIVE RStrip(_)
RStrip(l) ==
  IF l # <<>> /\ l[Len(l)] = WS THEN RStrip(SubSeq(l, 1, Len(l) - 1)) ELSE l

\* str.strip()
Strip(l) == RStrip(LStrip(l))

\* raw_line.startswith("data:")
StartsWithData(l) == l # <<>> /\ Head(l) = MARKER

\* json.loads(payload): a document, or JSONDecodeError
LoadsOk(payload) == Len(payload) = 1 /\ payload[1].t = "json"

(* --------------------------- aggregation ----------------------------- *)
\* Aggregate state of one fold; exc names the exception that left the loop.
EmptyAgg == [text |-> <<>>, sql |-> <<>>, citations |-> <<>>, exc |-> "none"]

Raise(st, e) == [st EXCEPT !.exc = e]

\* a fold that puts each new fragment in front of the text
PrependText(text, frag) == frag \o text

\* text += fragment
AppendText(text, frag) == text \o frag

\* a capture that keeps the first statement instead of the last
CaptureSqlFirst(sql, j) ==
  IF sql = <<>> /\ IsStr(Get(j, "sql", None)) THEN Get(j, "sql", None).s
  ELSE sql

\* if isinstance(j.get("sql"), str): sql = j["sql"]
CaptureSql(sql, j) ==
  IF IsStr(Get(j, "sql", None)) THEN Get(j, "sql", None).s ELSE sql

\* a record inserted at the front of the list
PrependCitation(citations, s) ==
  <<[source_id |-> Get(s, "source_id", None),
     doc_id |-> Get(s, "doc_id", None)]>> \o citations

\* an append that drops an entry lacking source_id or doc_id
AppendCitationIfComplete(citations, s) ==
  IF "source_id" \in DOMAIN s.fields /\ "doc_id" \in DOMAIN s.fields
  THEN Append(citations, [source_id |-> s.fields["source_id"],
                          doc_id |-> s.fields["doc_id"]])
  ELSE citations

\* citations.append({"source_id": ..., "doc_id": ...})
AppendCitation(citations, s) ==
  Append(citations, [source_id |-> Get(s, "source_id", None),
                     doc_id |-> Get(s, "doc_id", None)])

RECURSIVE FoldSearch(_, _, _)
FoldSearch(citations, sr, i) ==
  IF i > Len(sr) THEN citations
  ELSE FoldSearch(IF IsDict(sr[i]) THEN AppendCitation(citations, sr[i])
                  ELSE citations, sr, i + 1)

\* body of `if result.get("type") == "json":` for a dict j
JsonEntry(st, j) ==
  LET frag == Get(j, "text", Str(<<>>))
      sr == Get(j, "searchResults", List(<<>>))
  IN IF ~IsStr(frag) THEN Raise(st, "TypeError")
     ELSE [st EXCEPT !.text = AppendText(st.text, frag.s),
                     !.sql = CaptureSql(st.sql, j),
                     !.citations = IF IsList(sr)
                                   THEN FoldSearch(st.citations, sr.items, 1)
                                   ELSE st.citations]

\* one iteration of `for result in ...`
ResultEntry(st, result) ==
  IF ~IsDict(result) THEN st
  ELSE IF Get(result, "type", None) # Str(TYPE_JSON) THEN st
  ELSE LET j == Get(result, "json", EmptyDict)
       IN IF ~IsDict(j) THEN st ELSE JsonEntry(st, j)

RECURSIVE FoldResults(_, _, _)
FoldResults(st, rs, i) ==
  IF i > Len(rs) \/ st.exc # "none" THEN st
  ELSE FoldResults(ResultEntry(st, rs[i]), rs, i + 1)

\* the `elif t == "tool_results":` branch
ToolResults(st, item) ==
  LET tool_results == Get(item, "tool_results", EmptyDict)
  IN IF ~IsDict(tool_results) THEN st
     ELSE LET c == Get(tool_results, "content", List(<<>>))
          IN IF ~Truthy(c) THEN st            \* `... or []`
             ELSE IF IsList(c) THEN FoldResults(st, c.items, 1)
             ELSE IF c.k \in {"str", "dict"} THEN st  \* iterates str elements
             ELSE Raise(st, "TypeError")      \* not iterable

\* one iteration of `for item in content_items`
ContentItem(st, item) ==
  IF ~IsDict(item) THEN st
  ELSE LET t == Get(item, "type", None)
       IN IF t = Str(TYPE_TEXT)
          THEN LET frag == Get(item, "text", Str(<<>>))
               IN IF IsStr(frag)
                  THEN [st EXCEPT !.text = AppendText(st.text, frag.s)]
                  ELSE Raise(st, "TypeError")
          ELSE IF t = Str(TYPE_TOOL_RESULTS) THEN ToolResults(st, item)
          ELSE st

RECURSIVE FoldItems(_, _, _)
FoldItems(st, items, i) ==
  IF i > Len(items) \/ st.exc # "none" THEN st
  ELSE FoldItems(ContentItem(st, items[i]), items, i + 1)

\* an extraction that prefers data.delta to the top-level delta
ExtractDeltaDataFirst(evt) ==
  IF ~IsDict(evt) THEN None
  ELSE IF IsDict(Get(evt, "data", None))
          /\ IsDict(Get(Get(evt, "data", None), "delta", None))
       THEN Get(Get(evt, "data", None), "delta", None)
  ELSE IF "delta" \in DOMAIN evt.fields /\ IsDict(evt.fields["delta"])
       THEN evt.fields["delta"]
  ELSE None

\* "Safely extract delta": the delta dict of a parsed event, or None
ExtractDelta(evt) ==
  IF ~IsDict(evt) THEN None
  ELSE IF "delta" \in DOMAIN evt.fields /\ IsDict(evt.fields["delta"])
       THEN evt.fields["delta"]
  ELSE IF IsDict(Get(evt, "data", None))
          /\ IsDict(Get(Get(evt, "data", None), "delta", None))
       THEN Get(Get(evt, "data", None), "delta", None)
  ELSE None

\* lines 38-62: the delta a raw line carries, or None when it is skipped
DecodeLine(raw_line) ==
  IF raw_line = <<>> THEN None
  ELSE LET stripped == Strip(raw_line)
       IN IF ~StartsWithData(stripped) THEN None
          ELSE LET payload == Strip(Tail(stripped))
               IN IF payload = <<>> \/ payload = <<DONE>> THEN None
                  ELSE IF ~LoadsOk(payload) THEN None
                  ELSE ExtractDelta(payload[1].doc)

\* a loop body without the `isinstance(delta, dict)` guard: delta.get fails
\* on None
ProcessLineUnguarded(st, raw_line) ==
  LET delta == DecodeLine(raw_line)
  IN IF ~IsDict(delta) THEN Raise(st, "AttributeError")
     ELSE LET content_items == Get(delta, "content", List(<<>>))
          IN IF ~IsList(content_items) THEN st
             ELSE FoldItems(st, content_items.items, 1)

\* one iteration of `async for raw_line in resp.aiter_lines()`
ProcessLine(st, raw_line) ==
  LET delta == DecodeLine(raw_line)
  IN IF ~IsDict(delta) THEN st
     ELSE LET content_items == Get(delta, "content", List(<<>>))
          IN IF ~IsList(content_items) THEN st
             ELSE FoldItems(st, content_items.items, 1)

(* ------------------------- statement executor ------------------------ *)
\* Result of a Python expression: a value, or the exception it raised with
\* str(e) in msg.
Ok(v) == [exc |-> "none", msg |-> <<>>, value |-> v]
Exc(name, msg) == [exc |-> name, msg |-> msg, value |-> None]

\* str(e) of the exceptions the execution stage can raise
MSG_TIMEOUT == <<"t","i","m","e","d"," ","o","u","t">>
MSG_DECODE == <<"E","x","p","e","c","t","i","n","g"," ","v","a","l","u","e">>
MSG_ATTRIBUTE == <<"n","o"," ","a","t","t","r","i","b","u","t","e"," ","g","e","t">>
MSG_KEY == <<"n","a","m","e">>
MSG_TYPE == <<"b","a","d"," ","t","y","p","e">>

HTTP_OK == 200

\* sql.rstrip(";"): only the semicolons at the end are removed
RECURSIVE RemoveTrailingSemicolons(_)
RemoveTrailingSemicolons(sql) ==
  IF sql # <<>> /\ sql[Len(sql)] = ";"
  THEN RemoveTrailingSemicolons(SubSeq(sql, 1, Len(sql) - 1))
  ELSE sql

\* sql.replace(";", "")
RemoveSemicolons(sql) == SelectSeq(sql, LAMBDA c : c # ";")

\* the request body posted to /api/v2/statements
SqlPayload(sql) == [statement |-> RemoveSemicolons(sql), timeout |-> 60]

\* an executor that raises on every status other than 200
ExecuteSqlResultRaises(o) ==
  IF o.kind = "raise" THEN Exc("TransportError", o.msg)
  ELSE IF o.status = HTTP_OK
       THEN IF o.parses THEN Ok(o.doc) ELSE Exc("JSONDecodeError", MSG_DECODE)
  ELSE Exc("HTTPStatusError", o.text)

\* an executor that takes every 2xx status for success
ExecuteSqlResultAny2xx(o) ==
  IF o.kind = "raise" THEN Exc("TransportError", o.msg)
  ELSE IF o.status \in 200..299
       THEN IF o.parses THEN Ok(o.doc) ELSE Exc("JSONDecodeError", MSG_DECODE)
  ELSE Ok(Dict([error |-> Str(SQL_API_ERROR \o o.text)]))

\* What execute_sql returns or raises when the endpoint behaves as o:
\* o.kind = "raise": client.post raises (network error, timeout);
\* o.kind = "response": status o.status, body text o.text, which parses to
\* o.doc when o.parses.
ExecuteSqlResult(o) ==
  IF o.kind = "raise" THEN Exc("TransportError", o.msg)
  ELSE IF o.status = HTTP_OK
       THEN IF o.parses THEN Ok(o.doc) ELSE Exc("JSONDecodeError", MSG_DECODE)
  ELSE Ok(Dict([error |-> Str(SQL_API_ERROR \o o.text)]))

(* --------------------------- result shaping -------------------------- *)
RECURSIVE KeysOf(_)
KeysOf(S) ==
  IF S = {} THEN <<>>
  ELSE LET x == CHOOSE y \in S : TRUE IN <<Str(<<x>>)>> \o KeysOf(S \ {x})

\* The elements a `for` loop or zip draws from v. Iterating a dict yields its
\* keys; their insertion order is not represented, so the response bodies
\* enumerated below put no object with two or more keys in an iterated place.
Iterable(v) == v.k \in {"list", "str", "dict"}
Elements(v) ==
  CASE v.k = "list" -> v.items
    [] v.k = "str" -> [i \in 1..Len(v.s) |-> Str(<<v.s[i]>>)]
    [] v.k = "dict" -> KeysOf(DOMAIN v.fields)

Hashable(v) == v.k \in {"null", "bool", "num", "str"}

\* [col["name"] for col in rowType]
RECURSIVE ColumnNames(_, _, _)
ColumnNames(rowType, i, acc) ==
  IF i > Len(rowType) THEN Ok(acc)
  ELSE LET col == rowType[i]
       IN IF ~IsDict(col) THEN Exc("TypeError", MSG_TYPE)
          ELSE IF "name" \notin DOMAIN col.fields THEN Exc("KeyError", MSG_KEY)
          ELSE ColumnNames(rowType, i + 1, Append(acc, col.fields["name"]))

\* columns = [col["name"] for col in
\*            results.get("resultSetMetaData", {}).get("rowType", [])]
Columns(results) ==
  LET meta == Get(results, "resultSetMetaData", EmptyDict)
  IN IF ~IsDict(meta) THEN Exc("AttributeError", MSG_ATTRIBUTE)
     ELSE LET rowType == Get(meta, "rowType", List(<<>>))
          IN IF ~Iterable(rowType) THEN Exc("TypeError", MSG_TYPE)
             ELSE ColumnNames(Elements(rowType), 1, <<>>)

\* dict.__setitem__: a repeated key keeps its place and takes the new value
SetItem(pairs, key, value) ==
  IF \E i \in 1..Len(pairs) : pairs[i][1] = key
  THEN [i \in 1..Len(pairs) |->
          IF pairs[i][1] = key THEN <<key, value>> ELSE pairs[i]]
  ELSE Append(pairs, <<key, value>>)

RECURSIVE ZipDict(_, _, _, _)
ZipDict(columns, cells, i, pairs) ==
  IF i > Len(columns) \/ i > Len(cells) THEN Ok(PyDict(pairs))
  ELSE IF ~Hashable(columns[i]) THEN Exc("TypeError", MSG_TYPE)
  ELSE ZipDict(columns, cells, i + 1, SetItem(pairs, columns[i], cells[i]))

\* dict(zip(columns, row))
RowDict(columns, row) ==
  IF ~Iterable(row) THEN Exc("TypeError", MSG_TYPE)
  ELSE ZipDict(columns, Elements(row), 1, <<>>)

\* [dict(zip(columns, row)) for row in data_rows]
RECURSIVE RowDicts(_, _, _, _)
RowDicts(columns, rows, i, acc) ==
  IF i > Len(rows) THEN Ok(List(acc))
  ELSE LET r == RowDict(columns, rows[i])
       IN IF r.exc # "none" THEN r
          ELSE RowDicts(columns, rows, i + 1, Append(acc, r.value))

\* tabulate(rows, headers="keys", tablefmt="pretty"): a str holding the
\* rendering of rows
Tabulate(rows) == [k |-> "str", tabulated |-> rows]

\* Outcome of the try block: [table, str] or the exception caught.
Shaped(table, tstr) == [exc |-> "none", msg |-> <<>>, table |-> table, str |-> tstr]

\* a shaping that renders the table whenever results_table is not None
ShapeAlwaysTabulate(results) ==
  IF ~IsDict(results) THEN Exc("AttributeError", MSG_ATTRIBUTE)
  ELSE LET data_rows == Get(results, "data", List(<<>>))
           columns == Columns(results)
       IN IF columns.exc # "none" THEN columns
          ELSE IF ~Iterable(data_rows) THEN Exc("TypeError", MSG_TYPE)
          ELSE LET t == RowDicts(columns.value, Elements(data_rows), 1, <<>>)
               IN IF t.exc # "none" THEN t
                  ELSE Shaped(t.value, Tabulate(t.value))

\* lines 163-167, applied to the value execute_sql returned
Shape(results) ==
  IF ~IsDict(results) THEN Exc("AttributeError", MSG_ATTRIBUTE)
  ELSE LET data_rows == Get(results, "data", List(<<>>))
           columns == Columns(results)
       IN IF columns.exc # "none" THEN columns
          ELSE IF ~Iterable(data_rows) THEN Exc("TypeError", MSG_TYPE)
          ELSE LET t == RowDicts(columns.value, Elements(data_rows), 1, <<>>)
               IN IF t.exc # "none" THEN t
                  ELSE Shaped(t.value,
                              IF Truthy(t.value) THEN Tabulate(t.value)
                              ELSE None)

\* a handler that leaves results_table_str unset
ErrorStringNone(e) == None

\* the `except Exception as e:` handler
ErrorTable(e) == List(<<PyDict(<< <<Str(KEY_ERROR),
                                    Str(SQL_EXECUTION_FAILED \o e.msg)>> >>)>>)
ErrorString(e) == Str(SQL_EXECUTION_FAILED \o e.msg)

\* the try/except of lines 161-170 for endpoint behaviour o:
\* the pair (results_table, results_table_str) it leaves
TryExecute(o) ==
  LET r == ExecuteSqlResult(o)
  IN IF r.exc # "none" THEN Shaped(ErrorTable(r), ErrorString(r))
     ELSE LET s == Shape(r.value)
          IN IF s.exc # "none" THEN Shaped(ErrorTable(s), ErrorString(s))
             ELSE s

\* whether the execution stage raised for endpoint behaviour o
ExecutionRaised(o) ==
  \/ ExecuteSqlResult(o).exc # "none"
  \/ Shape(ExecuteSqlResult(o).value).exc # "none"

\* str(e) of the exception the execution stage raised
ExecutionMessage(o) ==
  IF ExecuteSqlResult(o).exc # "none" THEN ExecuteSqlResult(o).msg
  ELSE Shape(ExecuteSqlResult(o).value).msg

(* --------------------------- final assembly -------------------------- *)
\* a response that returns the aggregated text as it is
TextOutRaw(text) == text

\* "text": text if text else "No text response generated."
TextOut(text) == IF text # <<>> THEN text ELSE NO_TEXT

\* "sql": sql if sql else "NO_SQL_GENERATED"
SqlOut(sql) == IF sql # <<>> THEN sql ELSE NO_SQL_GENERATED

\* "citations": citations if citations else []
CitationsOut(citations) == IF citations # <<>> THEN citations ELSE <<>>

\* the dict returned on lines 172-178
ResponseObject(text, sql, table, tstr, citations) ==
  [text |-> Str(TextOut(text)),
   sql |-> Str(SqlOut(sql)),
   results |-> table,
   results_table |-> tstr,
   citations |-> List(CitationsOut(citations))]

(* ------------------ inputs: stream lines and endpoints ---------------- *)
MaxLines == 3

TextItem(s) == Dict([type |-> Str(TYPE_TEXT), text |-> Str(s)])
JsonResult(j) == Dict([type |-> Str(TYPE_JSON), json |-> j])
ToolItem(results) ==
  Dict([type |-> Str(TYPE_TOOL_RESULTS),
        tool_results |-> Dict([content |-> List(results)])])
Event(items) == Dict([delta |-> Dict([content |-> List(items)])])
Frame(items) == <<MARKER, WS, Json(Event(items))>>

Cite(source, doc) == Dict([source_id |-> Str(source), doc_id |-> Str(doc)])

\* The raw lines the agent-run endpoint may send.
LineTable == <<
  \* 1: data: {"delta":{"content":[{"type":"text","text":"Hi"}]}}
  Frame(<<TextItem(<<"H","i">>)>>),
  \* 2: one json entry with sql "A;" and no text
  Frame(<<ToolItem(<<JsonResult(Dict([sql |-> Str(<<"A",";">>)]))>>)>>),
  \* 3: one json entry whose sql is the empty string
  Frame(<<ToolItem(<<JsonResult(Dict([sql |-> Str(<<>>)]))>>)>>),
  \* 4: text "x"; entries {text "y", sql "B", two search results},
  \*    {text "z", sql 5}, a non-json entry; text "w"
  Frame(<<TextItem(<<"x">>),
          ToolItem(<<JsonResult(Dict([text |-> Str(<<"y">>),
                                      sql |-> Str(<<"B">>),
                                      searchResults |-> List(<<
                                        Cite(<<"s","1">>, <<"d","1">>),
                                        Dict([source_id |-> Str(<<"s","2">>)])
                                      >>)])),
                     JsonResult(Dict([text |-> Str(<<"z">>), sql |-> Num(5)])),
                     Dict([type |-> Str(TYPE_TEXT), text |-> Str(<<"u">>)])>>),
          TextItem(<<"w">>)>>),
  \* 5: search results only, the second repeating a record of line 4
  Frame(<<ToolItem(<<JsonResult(Dict([searchResults |-> List(<<
                                        Cite(<<"s","3">>, <<"d","3">>),
                                        Cite(<<"s","1">>, <<"d","1">>)
                                      >>)]))>>)>>),
  \* 6: data: [DONE]
  <<MARKER, WS, DONE>>,
  \* 7: a line without the marker (event: message)
  <<OTHER_TEXT>>,
  \* 8: text "a", then a text item whose text is null
  Frame(<<TextItem(<<"a">>),
          Dict([type |-> Str(TYPE_TEXT), text |-> None])>>),
  \* 9: the delta under data.delta, padded with whitespace
  <<WS, MARKER, Json(Dict([data |-> Event(<<TextItem(<<"n">>)>>)])), WS>>,
  \* 10: an empty line
  <<>>,
  \* 11: data: followed by text that is not JSON
  <<MARKER, WS, JUNK>>,
  \* 12: text "c", then tool_results whose content is the number 5
  Frame(<<TextItem(<<"c">>),
          Dict([type |-> Str(TYPE_TOOL_RESULTS),
                tool_results |-> Dict([content |-> Num(5)])])>>),
  \* 13: search results "x" (not an object), {doc_id "d4"} and {}
  Frame(<<ToolItem(<<JsonResult(Dict([searchResults |-> List(<<
                                        Str(<<"x">>),
                                        Dict([doc_id |-> Str(<<"d","4">>)]),
                                        EmptyDict
                                      >>)]))>>)>>),
  \* 14: a line of whitespace only
  <<WS>>,
  \* 15: data: with an empty payload
  <<MARKER, WS>>,
  \* 16: an event whose delta is a string and whose data.delta is a list
  <<MARKER, Json(Dict([delta |-> Str(<<"o">>),
                       data |-> Dict([delta |-> List(<<>>)])]))>>,
  \* 17: delta with text "t" and data.delta with text "d" and sql "D"
  <<MARKER, WS,
    Json(Dict([delta |-> Dict([content |-> List(<<TextItem(<<"t">>)>>)]),
               data |-> Event(<<TextItem(<<"d">>),
                                ToolItem(<<JsonResult(Dict([sql |->
                                             Str(<<"D">>)]))>>)>>)]))>>,
  \* 18: delta null and data.delta with text "e"
  <<MARKER, WS,
    Json(Dict([delta |-> None, data |-> Event(<<TextItem(<<"e">>)>>)]))>>
>>

Lines == 1..Len(LineTable)

Column(name) == Dict([name |-> Str(name)])
Success(doc) ==
  [kind |-> "response", status |-> HTTP_OK, parses |-> TRUE, doc |-> doc,
   text |-> <<>>]
Failure(status, text) ==
  [kind |-> "response", status |-> status, parses |-> FALSE, doc |-> None,
   text |-> text]

\* The ways the execute endpoint may behave.
ExecTable == <<
  \* 1: the request times out
  [kind |-> "raise", msg |-> MSG_TIMEOUT],
  \* 2: two rows of two columns
  Success(Dict([data |-> List(<<List(<<Str(<<"1">>), Str(<<"x">>)>>),
                                List(<<Str(<<"2">>), Str(<<"y">>)>>)>>),
                resultSetMetaData |->
                  Dict([rowType |-> List(<<Column(<<"I","D">>),
                                           Column(<<"V">>)>>)])])),
  \* 3: no rows
  Success(Dict([data |-> List(<<>>),
                resultSetMetaData |->
                  Dict([rowType |-> List(<<Column(<<"I","D">>)>>)])])),
  \* 4: status 200 with a body that is not JSON
  [kind |-> "response", status |-> HTTP_OK, parses |-> FALSE, doc |-> None,
   text |-> <<"<">>],
  \* 5: status 500
  Failure(500, <<"b","o","o","m">>),
  \* 6: status 200 with a JSON array as body
  Success(List(<<>>)),
  \* 7: status 202 (statement still running)
  Failure(202, <<"r","u","n">>),
  \* 8: a column descriptor without a name
  Success(Dict([data |-> List(<<List(<<Str(<<"1">>)>>)>>),
                resultSetMetaData |->
                  Dict([rowType |-> List(<<Dict([type |-> Str(<<"f">>)])>>)])])),
  \* 9: one row and no resultSetMetaData
  Success(Dict([data |-> List(<<List(<<Str(<<"1">>)>>)>>)])),
  \* 10: status 204 with an empty body
  Failure(204, <<>>)
>>

ExecOutcomes == 1..Len(ExecTable)

RunOutcomes == {"ok", "http_error", "connect_error"}

(* ------------------------------ actions ------------------------------ *)
\* Module import: lines 17-25 refuse to start without the credential and URL.
Init ==
  /\ configured \in BOOLEAN
  /\ pc = IF configured THEN "ready" ELSE "startup_failed"
  /\ runOutcome = "none"
  /\ stream = <<>>
  /\ agg = EmptyAgg
  /\ streamOpen = FALSE
  /\ execOpen = FALSE
  /\ execCalls = 0
  /\ statement = None
  /\ execOutcome = 0
  /\ results_table = None
  /\ results_table_str = None
  /\ response = None
  /\ exception = "none"

\* a stream opened without resp.raise_for_status()
OpenStreamUnchecked(o) ==
  /\ pc = "ready"
  /\ runOutcome' = o
  /\ IF o # "connect_error"
     THEN /\ pc' = "streaming"
          /\ streamOpen' = TRUE
          /\ exception' = exception
     ELSE /\ pc' = "raised"
          /\ streamOpen' = FALSE
          /\ exception' = "ConnectError"
  /\ UNCHANGED <<configured, stream, agg, execOpen, execCalls, statement,
                 execOutcome, results_table, results_table_str, response>>

\* lines 152-154: open the stream and require a success status
OpenStream(o) ==
  /\ pc = "ready"
  /\ runOutcome' = o
  /\ IF o = "ok"
     THEN /\ pc' = "streaming"
          /\ streamOpen' = TRUE
          /\ exception' = exception
     ELSE /\ pc' = "raised"
          /\ streamOpen' = FALSE
          /\ exception' = IF o = "http_error" THEN "HTTPStatusError"
                          ELSE "ConnectError"
  /\ UNCHANGED <<configured, stream, agg, execOpen, execCalls, statement,
                 execOutcome, results_table, results_table_str, response>>

\* a loop that breaks at the [DONE] sentinel or at an empty payload
ReadLineStopAtDone(i) ==
  /\ pc = "streaming"
  /\ Len(stream) < MaxLines
  /\ stream' = Append(stream, i)
  /\ agg' = ProcessLine(agg, LineTable[i])
  /\ IF agg'.exc # "none"
     THEN /\ pc' = "raised"
          /\ streamOpen' = FALSE
          /\ exception' = agg'.exc
     ELSE IF /\ StartsWithData(Strip(LineTable[i]))
             /\ Strip(Tail(Strip(LineTable[i]))) \in {<<>>, <<DONE>>}
     THEN /\ pc' = "drained"
          /\ streamOpen' = FALSE
          /\ UNCHANGED exception
     ELSE UNCHANGED <<pc, streamOpen, exception>>
  /\ UNCHANGED <<configured, runOutcome, execOpen, execCalls, statement,
                 execOutcome, results_table, results_table_str, response>>

\* lines 37-103: the loop body for the next line received
ReadLine(i) ==
  /\ pc = "streaming"
  /\ Len(stream) < MaxLines
  /\ stream' = Append(stream, i)
  /\ agg' = ProcessLine(agg, LineTable[i])
  /\ IF agg'.exc = "none"
     THEN UNCHANGED <<pc, streamOpen, exception>>
     ELSE /\ pc' = "raised"
          /\ streamOpen' = FALSE
          /\ exception' = agg'.exc
  /\ UNCHANGED <<configured, runOutcome, execOpen, execCalls, statement,
                 execOutcome, results_table, results_table_str, response>>

\* line 37: resp.aiter_lines() raises (connection lost, read timeout); the
\* exception leaves both `async with` blocks
StreamError ==
  /\ pc = "streaming"
  /\ pc' = "raised"
  /\ runOutcome' = "read_error"
  /\ streamOpen' = FALSE
  /\ exception' = "ReadError"
  /\ UNCHANGED <<configured, stream, agg, execOpen, execCalls, statement,
                 execOutcome, results_table, results_table_str, response>>

\* lines 104 and 155: the stream ends, both `async with` blocks exit
EndStream ==
  /\ pc = "streaming"
  /\ pc' = "drained"
  /\ streamOpen' = FALSE
  /\ UNCHANGED <<configured, runOutcome, stream, agg, execOpen, execCalls,
                 statement, execOutcome, results_table, results_table_str,
                 response, exception>>

\* a guard that executes whatever was aggregated
ShouldExecuteAlways(sql) == TRUE

\* line 160: `if sql:`
ShouldExecute(sql) == sql # <<>>

\* lines 158-160 when the statement is empty
SkipExecute ==
  /\ pc = "drained"
  /\ ~ShouldExecute(agg.sql)
  /\ pc' = "assembled"
  /\ results_table' = None
  /\ results_table_str' = None
  /\ UNCHANGED <<configured, runOutcome, stream, agg, streamOpen, execOpen,
                 execCalls, statement, execOutcome, response, exception>>

\* an execution started as soon as a statement is seen, inside the stream
ExecRequestWhileStreaming ==
  /\ pc = "streaming"
  /\ ShouldExecute(agg.sql)
  /\ pc' = "executing"
  /\ execOpen' = TRUE
  /\ execCalls' = execCalls + 1
  /\ statement' = Str(SqlPayload(agg.sql).statement)
  /\ UNCHANGED <<configured, runOutcome, stream, agg, streamOpen,
                 execOutcome, results_table, results_table_str, response,
                 exception>>

\* lines 160-162 and 108-115: execute_sql posts the statement
ExecRequest ==
  /\ pc = "drained"
  /\ ShouldExecute(agg.sql)
  /\ pc' = "executing"
  /\ execOpen' = TRUE
  /\ execCalls' = execCalls + 1
  /\ statement' = Str(SqlPayload(agg.sql).statement)
  /\ UNCHANGED <<configured, runOutcome, stream, agg, streamOpen,
                 execOutcome, results_table, results_table_str, response,
                 exception>>

\* lines 115-124 and 163-170: the endpoint behaves as ExecTable[o]
ExecResponse(o) ==
  /\ pc = "executing"
  /\ pc' = "assembled"
  /\ execOpen' = FALSE
  /\ execOutcome' = o
  /\ results_table' = TryExecute(ExecTable[o]).table
  /\ results_table_str' = TryExecute(ExecTable[o]).str
  /\ UNCHANGED <<configured, runOutcome, stream, agg, streamOpen, execCalls,
                 statement, response, exception>>

\* lines 172-178
Return ==
  /\ pc = "assembled"
  /\ pc' = "done"
  /\ response' = ResponseObject(agg.text, agg.sql, results_table,
                                results_table_str, agg.citations)
  /\ UNCHANGED <<configured, runOutcome, stream, agg, streamOpen, execOpen,
                 execCalls, statement, execOutcome, results_table,
                 results_table_str, exception>>

Next ==
  \/ \E o \in RunOutcomes : OpenStream(o)
  \/ \E i \in Lines : ReadLine(i)
  \/ StreamError
  \/ EndStream
  \/ SkipExecute
  \/ ExecRequest
  \/ \E o \in ExecOutcomes : ExecResponse(o)
  \/ Return

Spec == Init /\ [][Next]_vars

(* ============================== claims =============================== *)
Returned == pc = "done"
AgentRunFailures == {"http_error", "connect_error", "read_error"}
Executed == execOutcome # 0

\* the endpoint answered with a status other than 200: execute_sql returns
\* {"error": "SQL API error: <text>"} without raising
ReportedError(o) == ExecTable[o].kind = "response" /\ ExecTable[o].status # HTTP_OK
ReportedPayload(o) == Dict([error |-> Str(SQL_API_ERROR \o ExecTable[o].text)])

\* results is a list of exactly one row {"error": "SQL execution failed: <e>"}
\* and results_table is that error string
DegradedResults(resp, msg) ==
  /\ IsList(resp.results)
  /\ Len(resp.results.items) = 1
  /\ resp.results.items[1].pairs =
       << <<Str(KEY_ERROR), Str(SQL_EXECUTION_FAILED \o msg)>> >>
  /\ resp.results_table # None
  /\ resp.results_table = Str(SQL_EXECUTION_FAILED \o msg)

\* C1 as stated: when the aggregated sql is non-empty and the execution stage
\* raises, the call does not raise and returns a response whose results is a
\* one-row error list, whose results_table is the error string, and whose
\* text, sql and citations are the values aggregated from the stream.
C1_TextIsAggregatedValue ==
  /\ Executed /\ ExecutionRaised(ExecTable[execOutcome])
       => exception = "none" /\ pc \in {"assembled", "done"}
  /\ Returned /\ Executed /\ ExecutionRaised(ExecTable[execOutcome])
       => /\ DegradedResults(response, ExecutionMessage(ExecTable[execOutcome]))
          /\ response.text = Str(agg.text)
          /\ response.sql = Str(agg.sql)
          /\ response.citations = List(agg.citations)

\* C1 amended: as C1, except that text is the aggregated text when that is
\* non-empty and the placeholder "No text response generated." when the
\* stream produced no text.
C1_ExecutionExceptionDegrades ==
  /\ Executed /\ ExecutionRaised(ExecTable[execOutcome])
       => exception = "none" /\ pc \in {"assembled", "done"}
  /\ Returned /\ Executed /\ ExecutionRaised(ExecTable[execOutcome])
       => /\ DegradedResults(response, ExecutionMessage(ExecTable[execOutcome]))
          /\ response.text = Str(IF agg.text = <<>> THEN NO_TEXT ELSE agg.text)
          /\ response.sql = Str(agg.sql)
          /\ agg.sql # <<>>
          /\ response.citations = List(agg.citations)

\* a call returned after the shaping of a 200 response raised, with text and
\* citations aggregated
C1_Witness ==
  /\ Returned /\ Executed
  /\ ExecTable[execOutcome].kind = "response"
  /\ ExecutionRaised(ExecTable[execOutcome])
  /\ agg.text # <<>> /\ agg.citations # <<>>

C3_ReportedErrorPassedThrough ==
  Returned /\ Executed /\ ReportedError(execOutcome)
    => \E f \in {"results", "results_table"} :
         \/ response[f] = ReportedPayload(execOutcome)
         \/ response[f] = ReportedPayload(execOutcome).fields["error"]

\* C4: the executor is invoked exactly when the sql aggregated after the
\* whole stream is non-empty; when it is empty no request is sent, results
\* and results_table are null and the output sql is "NO_SQL_GENERATED".
C4_ExecuteIffSql ==
  /\ execCalls > 0 => pc \in {"executing", "assembled", "done"} /\ agg.sql # <<>>
  /\ pc \in {"assembled", "done"} => (execCalls = 1 <=> agg.sql # <<>>)
  /\ Returned /\ agg.sql = <<>>
       => /\ execCalls = 0 /\ statement = None /\ ~Executed
          /\ response.results = None
          /\ response.results_table = None
          /\ response.sql = Str(NO_SQL_GENERATED)

\* a call returned after an sql "A;" was overwritten by a later ""
C4_Witness ==
  Returned /\ stream = <<2, 3>> /\ agg.sql = <<>> /\ execCalls = 0

\* C5: in every returned response text and sql are non-empty: the aggregated
\* value when non-empty, the placeholder or sentinel otherwise; a stream of
\* zero frames gives the placeholder, the sentinel and no citations.
C5_TextAndSqlNeverEmpty ==
  Returned =>
    /\ response.text # Str(<<>>) /\ response.sql # Str(<<>>)
    /\ response.text = Str(IF agg.text = <<>> THEN NO_TEXT ELSE agg.text)
    /\ response.sql = Str(IF agg.sql = <<>> THEN NO_SQL_GENERATED ELSE agg.sql)
    /\ stream = <<>> => /\ response.text = Str(NO_TEXT)
                        /\ response.sql = Str(NO_SQL_GENERATED)
                        /\ response.citations = List(<<>>)

C5_Witness == Returned /\ stream = <<>>

\* C6: with valid configuration a call raises only when the agent-run stage
\* fails; for every stream content it returns a response with all five fields.
C6_RaisesOnlyOnAgentRunFailure ==
  /\ configured /\ pc = "raised" => runOutcome \in AgentRunFailures
  /\ Returned => DOMAIN response =
                   {"text", "sql", "results", "results_table", "citations"}

\* C7: when the agent-run request fails (non-success status or connection
\* error) the failure propagates: no response is returned, not even a
\* partial one, no line is folded into a result and nothing is sent to the
\* execute endpoint; a failure at the opening leaves no line read at all.
C7_AgentRunFailurePropagates ==
  /\ runOutcome \in AgentRunFailures
       => /\ pc = "raised" /\ exception # "none"
          /\ response = None
          /\ results_table = None /\ results_table_str = None
          /\ execCalls = 0 /\ statement = None /\ ~streamOpen /\ ~execOpen
  /\ runOutcome \in {"http_error", "connect_error"}
       => stream = <<>> /\ agg = EmptyAgg

C7_Witness == runOutcome = "http_error" /\ pc = "raised"

(* ----- what a stream contributes, read off the frames it carries ----- *)
RECURSIVE ConcatAll(_)
ConcatAll(ss) == IF ss = <<>> THEN <<>> ELSE Head(ss) \o ConcatAll(Tail(ss))

IsPrefix(s, t) == Len(s) <= Len(t) /\ SubSeq(t, 1, Len(s)) = s

\* the content items of the frame on line i (none when the line is no frame)
FrameItems(i) ==
  LET delta == DecodeLine(LineTable[i])
  IN IF IsDict(delta) /\ IsList(Get(delta, "content", List(<<>>)))
     THEN Get(delta, "content", List(<<>>)).items
     ELSE <<>>

\* the tool-result entries of a content item
ToolEntries(item) ==
  IF /\ IsDict(item)
     /\ Get(item, "type", None) = Str(TYPE_TOOL_RESULTS)
     /\ IsDict(Get(item, "tool_results", EmptyDict))
     /\ IsList(Get(Get(item, "tool_results", EmptyDict), "content", List(<<>>)))
  THEN Get(Get(item, "tool_results", EmptyDict), "content", List(<<>>)).items
  ELSE <<>>

IsJsonEntry(e) ==
  /\ IsDict(e)
  /\ Get(e, "type", None) = Str(TYPE_JSON)
  /\ IsDict(Get(e, "json", EmptyDict))

\* the `json` objects of the json tool-result entries of a content item
JsonObjects(item) ==
  LET es == SelectSeq(ToolEntries(item), IsJsonEntry)
  IN [n \in 1..Len(es) |-> Get(es[n], "json", EmptyDict)]

\* the text fragments a content item contributes, in order
TextFragments(item) ==
  IF IsDict(item) /\ Get(item, "type", None) = Str(TYPE_TEXT)
  THEN <<Get(item, "text", Str(<<>>))>>
  ELSE LET js == JsonObjects(item)
       IN [n \in 1..Len(js) |-> Get(js[n], "text", Str(<<>>))]

\* all content items / json objects / text fragments of a stream, in
\* stream order
StreamItems(st) == ConcatAll([n \in 1..Len(st) |-> FrameItems(st[n])])
StreamJson(st) ==
  LET items == StreamItems(st)
  IN ConcatAll([n \in 1..Len(items) |-> JsonObjects(items[n])])
StreamFragments(st) ==
  LET items == StreamItems(st)
  IN ConcatAll([n \in 1..Len(items) |-> TextFragments(items[n])])

\* the search-result entries of a json object, as citation records
SearchRecords(j) ==
  LET sr == Get(j, "searchResults", List(<<>>))
      es == IF IsList(sr) THEN SelectSeq(sr.items, IsDict) ELSE <<>>
  IN [n \in 1..Len(es) |-> [source_id |-> Get(es[n], "source_id", None),
                            doc_id |-> Get(es[n], "doc_id", None)]]

ExpectedCitations(st) ==
  LET js == StreamJson(st)
  IN ConcatAll([n \in 1..Len(js) |-> SearchRecords(js[n])])

\* the sql of the last json entry whose sql is a string, "" without one
ExpectedSql(st) ==
  LET js == StreamJson(st)
      setters == {n \in 1..Len(js) : IsStr(Get(js[n], "sql", None))}
  IN IF setters = {} THEN <<>>
     ELSE Get(js[CHOOSE n \in setters : \A m \in setters : m <= n], "sql", None).s

ExpectedText(st) ==
  LET fs == StreamFragments(st)
  IN ConcatAll([n \in 1..Len(fs) |-> fs[n].s])

\* a frame of the expected shape at every nesting level
WellFormedJson(j) ==
  /\ IsStr(Get(j, "text", Str(<<>>)))
  /\ "sql" \in DOMAIN j.fields => IsStr(j.fields["sql"])
  /\ LET sr == Get(j, "searchResults", List(<<>>))
     IN IsList(sr) /\ \A n \in 1..Len(sr.items) : IsDict(sr.items[n])
WellFormedEntry(e) ==
  /\ IsDict(e)
  /\ Get(e, "type", None) = Str(TYPE_JSON)
       => IsDict(Get(e, "json", EmptyDict)) /\ WellFormedJson(Get(e, "json", EmptyDict))
WellFormedItem(item) ==
  /\ IsDict(item)
  /\ Get(item, "type", None) = Str(TYPE_TEXT) => IsStr(Get(item, "text", Str(<<>>)))
  /\ Get(item, "type", None) = Str(TYPE_TOOL_RESULTS)
       => LET tr == Get(item, "tool_results", EmptyDict)
          IN /\ IsDict(tr)
             /\ IsList(Get(tr, "content", List(<<>>)))
             /\ \A n \in 1..Len(Get(tr, "content", List(<<>>)).items) :
                  WellFormedEntry(Get(tr, "content", List(<<>>)).items[n])
WellFormedLine(i) ==
  \A n \in 1..Len(FrameItems(i)) : WellFormedItem(FrameItems(i)[n])
WellFormedStream(st) == \A n \in 1..Len(st) : WellFormedLine(st[n])

\* the fold has not raised
Folding == pc \in {"streaming", "drained", "executing", "assembled", "done"}

\* C8: for every sequence of well-formed frames the fold does not raise and
\* the citations are the search-result entries in stream order (frame, then
\* content item and entry, then position in searchResults), duplicates
\* kept; every step of a call only appends to the list.
C8_CitationsInStreamOrder ==
  /\ [](/\ runOutcome = "ok" /\ WellFormedStream(stream) => Folding
        /\ Folding => agg.citations = ExpectedCitations(stream))
  /\ [][IsPrefix(agg.citations, agg'.citations)]_vars

\* citations of two frames, the later one repeating a record of the earlier
C8_Witness ==
  /\ pc = "drained" /\ stream = <<4, 5>>
  /\ Len(agg.citations) = 4 /\ agg.citations[1] = agg.citations[4]

\* C9: after any frame sequence the aggregated sql is the sql of the last
\* json entry (entry granularity, across all frames) whose sql is a string,
\* and "" if there is none; a missing or non-string sql changes nothing.
C9_SqlLastStringWins ==
  Folding => agg.sql = ExpectedSql(stream)

\* sql "A;" of line 2 replaced by "B" of line 4, whose later entry carries
\* the non-string sql 5
C9_Witness == pc = "drained" /\ stream = <<2, 4>> /\ agg.sql = <<"B">>

\* C10: the aggregated text is the concatenation of all contributed
\* fragments (text items and json entries) in order of appearance, and the
\* accumulator only grows at its end.
C10_TextInOrderOfAppearance ==
  /\ [](Folding => agg.text = ExpectedText(stream))
  /\ [][IsPrefix(agg.text, agg'.text)]_vars

C10_Witness ==
  pc = "drained" /\ stream = <<1, 4, 9>>
  /\ agg.text = <<"H","i","x","y","z","w","n">>

(* ------------------------ lines that carry nothing ------------------- *)
\* the payload of a line that starts with the marker after trimming
PayloadOf(l) == Strip(Tail(Strip(l)))

\* the line is blank, lacks the data: marker after trimming, has an empty or
\* [DONE] payload, has a payload that does not parse, or parses to a document
\* with no object-valued delta at either place
NonContributing(l) ==
  \/ Strip(l) = <<>>
  \/ Head(Strip(l)) # MARKER
  \/ PayloadOf(l) = <<>>
  \/ PayloadOf(l) = <<DONE>>
  \/ Len(PayloadOf(l)) # 1
  \/ PayloadOf(l)[1].t # "json"
  \/ LET doc == PayloadOf(l)[1].doc
     IN \/ ~IsDict(doc)
        \/ /\ ~IsDict(Get(doc, "delta", None))
           /\ \/ ~IsDict(Get(doc, "data", None))
              \/ ~IsDict(Get(Get(doc, "data", None), "delta", None))

\* the stream with its non-contributing lines taken out
Contributing(st) == SelectSeq(st, LAMBDA i : ~NonContributing(LineTable[i]))

\* C11: a line that is blank, lacks the marker, has an empty or [DONE]
\* payload, does not parse or has no object-valued delta leaves text, sql and
\* citations unchanged and does not raise; with such lines inserted anywhere
\* the aggregate is that of the stream without them.
C11_SkippedLinesChangeNothing ==
  /\ [][\A i \in Lines :
          pc = "streaming" /\ stream' = Append(stream, i)
          /\ NonContributing(LineTable[i])
            => agg' = agg /\ pc' = "streaming" /\ exception' = "none"]_vars
  /\ [](Folding => /\ agg.text = ExpectedText(Contributing(stream))
                   /\ agg.sql = ExpectedSql(Contributing(stream))
                   /\ agg.citations = ExpectedCitations(Contributing(stream)))

\* frames 4 and 2 with an unparsable line between them and a delta-less
\* event after them
C11_Witness ==
  /\ pc = "drained" /\ stream = <<4, 11, 16>>
  /\ Contributing(stream) = <<4>>
  /\ agg.text = <<"x","y","z","w">> /\ agg.sql = <<"B">>
  /\ Len(agg.citations) = 2

(* ------------- the executor on every short statement string ---------- *)
MaxSqlLen == 3
SqlAlphabet == {"a", ";", "'"}
SqlStrings == UNION {[1..n -> SqlAlphabet] : n \in 0..MaxSqlLen}

\* line 157 of a call whose stream was drained with the statement s
\* aggregated (the lines that produced it are not recorded)
InitSql ==
  /\ configured = TRUE
  /\ pc = "drained"
  /\ runOutcome = "ok"
  /\ stream = <<>>
  /\ \E s \in SqlStrings : agg = [EmptyAgg EXCEPT !.sql = s]
  /\ streamOpen = FALSE
  /\ execOpen = FALSE
  /\ execCalls = 0
  /\ statement = None
  /\ execOutcome = 0
  /\ results_table = None
  /\ results_table_str = None
  /\ response = None
  /\ exception = "none"

NextSql ==
  \/ SkipExecute
  \/ ExecRequest
  \/ \E o \in ExecOutcomes : ExecResponse(o)
  \/ Return

SpecSql == InitSql /\ [][NextSql]_vars

\* the positions of sql that hold another character than ";"
KeptPositions(sql) == {n \in 1..Len(sql) : sql[n] # ";"}

\* C12: the statement submitted is the input with every semicolon removed,
\* those inside quoted literals included, and every other character kept in
\* its order; it never contains a semicolon.
C12_AllSemicolonsStripped ==
  statement # None =>
    LET kept == KeptPositions(agg.sql)
    IN /\ IsStr(statement)
       /\ \A n \in 1..Len(statement.s) : statement.s[n] # ";"
       /\ Len(statement.s) = Cardinality(kept)
       /\ \A p \in kept :
            statement.s[Cardinality({q \in kept : q <= p})] = agg.sql[p]

\* ';'a submitted as ''a
C12_Witness ==
  /\ agg.sql = <<"'", ";", "'">>
  /\ statement = Str(<<"'", "'">>)
  /\ pc = "done"

\* the endpoint answered 200 with a well-shaped body of n data rows
RowsReturned(o) ==
  IF /\ ExecTable[o].kind = "response" /\ ExecTable[o].status = HTTP_OK
     /\ ExecTable[o].parses /\ ~ExecutionRaised(ExecTable[o])
  THEN Len(Get(ExecTable[o].doc, "data", List(<<>>)).items)
  ELSE 0

\* C13: in every response results_table is non-null exactly when results is
\* a non-empty list: null without a statement and with zero rows, non-null
\* with at least one row or with the execution exception converted.
C13_TableIffRows ==
  Returned =>
    /\ response.results_table # None
         <=> IsList(response.results) /\ response.results.items # <<>>
    /\ ~Executed => response.results = None /\ response.results_table = None
    /\ Executed /\ ExecutionRaised(ExecTable[execOutcome])
         => IsStr(response.results_table)
    /\ Executed /\ ~ExecutionRaised(ExecTable[execOutcome])
         => (response.results_table # None <=> RowsReturned(execOutcome) > 0)

\* a response with no rows next to one with two rows cannot be one state:
\* the witness is the two-row response, rendered
C13_Witness ==
  /\ Returned /\ execOutcome = 2
  /\ Len(response.results.items) = 2
  /\ response.results_table = Tabulate(response.results)

\* C14: the aggregator never fails on a decoded delta: a field of unexpected
\* shape is ignored for that field only and no exception leaves
\* process_sse_response.
C14_AggregatorNeverFails ==
  /\ agg.exc = "none"
  /\ exception # "TypeError"
  /\ runOutcome = "ok" => pc # "raised"

\* every entry of every searchResults sequence of the stream, in order
SearchEntries(st) ==
  LET js == StreamJson(st)
  IN ConcatAll([n \in 1..Len(js) |->
       IF IsList(Get(js[n], "searchResults", List(<<>>)))
       THEN Get(js[n], "searchResults", List(<<>>)).items
       ELSE <<>>])

\* C15 as stated: one citation record per entry of every searchResults
\* sequence, so as many records as entries.
C15_OneRecordPerEntry ==
  Folding => Len(agg.citations) = Len(SearchEntries(stream))

\* C15 amended: one citation record per entry that is an object (entries of
\* another type are skipped); a missing source_id or doc_id gives a null
\* field and never drops the record.
C15_OneRecordPerObjectEntry ==
  Folding =>
    LET es == SelectSeq(SearchEntries(stream), IsDict)
    IN /\ Len(agg.citations) = Len(es)
       /\ \A n \in 1..Len(es) :
            /\ agg.citations[n].source_id =
                 (IF "source_id" \in DOMAIN es[n].fields
                  THEN es[n].fields["source_id"] ELSE None)
            /\ agg.citations[n].doc_id =
                 (IF "doc_id" \in DOMAIN es[n].fields
                  THEN es[n].fields["doc_id"] ELSE None)

\* two records of line 4 (the second without doc_id), then of line 13 the
\* entry without source_id and the empty one; its string entry is skipped
C15_Witness ==
  /\ pc = "drained" /\ stream = <<4, 13>>
  /\ Len(SearchEntries(stream)) = 5
  /\ Len(agg.citations) = 4
  /\ agg.citations[2].doc_id = None
  /\ agg.citations[4] = [source_id |-> None, doc_id |-> None]

\* execute_sql returned the failure descriptor carrying the raw text
IsDescriptor(r, o) ==
  /\ r.exc = "none"
  /\ r.value = Dict([error |-> Str(SQL_API_ERROR \o ExecTable[o].text)])

Answered(o) == ExecTable[o].kind = "response"

\* C16 as stated: the executor returns the failure descriptor exactly when
\* the endpoint answers with a non-2xx status; for every 2xx status it
\* returns the parsed body and no descriptor.
C16_DescriptorIffNon2xx ==
  Executed /\ Answered(execOutcome) =>
    LET o == ExecTable[execOutcome]
        r == ExecuteSqlResult(o)
    IN /\ IsDescriptor(r, execOutcome) <=> o.status \notin 200..299
       /\ o.status \in 200..299 /\ o.parses => r = Ok(o.doc)

\* C16 amended: the executor returns the failure descriptor exactly when the
\* status is not 200 (201-299 included); for status 200 it returns the
\* parsed body and no descriptor, or raises when the body is not JSON.
C16_DescriptorIffNot200 ==
  Executed /\ Answered(execOutcome) =>
    LET o == ExecTable[execOutcome]
        r == ExecuteSqlResult(o)
    IN /\ IsDescriptor(r, execOutcome) <=> o.status # 200
       /\ o.status = 200 /\ o.parses => r = Ok(o.doc)
       /\ o.status = 200 /\ ~o.parses => r.exc = "JSONDecodeError"

\* a call that returned after the endpoint answered 202
C16_Witness ==
  /\ Returned /\ Executed
  /\ Answered(execOutcome)
  /\ ExecTable[execOutcome].status = 202
  /\ IsDescriptor(ExecuteSqlResult(ExecTable[execOutcome]), execOutcome)

\* C17: the execute connection is opened only after the stream was read to
\* its end and closed; the two connections are never open together, and the
\* statement submitted comes from the final aggregated sql (its semicolons
\* removed), never from an intermediate value.
C17_ExecuteAfterStreamDrained ==
  /\ ~(streamOpen /\ execOpen)
  /\ execOpen => pc = "executing"
  /\ execCalls > 0 =>
       /\ ~streamOpen
       /\ pc \in {"executing", "assembled", "done"}
       /\ agg.sql = ExpectedSql(stream)
       /\ statement = Str(SelectSeq(ExpectedSql(stream), LAMBDA c : c # ";"))
  /\ streamOpen => execCalls = 0 /\ statement = None

\* the request in flight for "B", the final value after the intermediate
\* "A;" of an earlier frame
C17_Witness ==
  /\ pc = "executing" /\ execOpen /\ ~streamOpen
  /\ stream = <<2, 4>>
  /\ statement = Str(<<"B">>)

\* a cancellation that unwinds without leaving the `async with` blocks
CancelLeavesOpen ==
  /\ pc \in {"ready", "streaming", "executing"}
  /\ configured
  /\ pc' = "cancelled"
  /\ exception' = "CancelledError"
  /\ UNCHANGED <<configured, runOutcome, stream, agg, streamOpen, execOpen,
                 execCalls, statement, execOutcome, results_table,
                 results_table_str, response>>

\* the task is cancelled at an await point: connecting (line 153), reading
\* the stream (lines 37 and 155) or posting the statement (lines 114-115).
\* CancelledError is no Exception, so line 168 does not catch it; it leaves
\* the `async with` blocks of lines 152-153 and 114, which close what is open
Cancel ==
  /\ pc \in {"ready", "streaming", "executing"}
  /\ configured
  /\ pc' = "cancelled"
  /\ exception' = "CancelledError"
  /\ streamOpen' = FALSE
  /\ execOpen' = FALSE
  /\ UNCHANGED <<configured, runOutcome, stream, agg, execCalls, statement,
                 execOutcome, results_table, results_table_str, response>>

NextCancel == Next \/ Cancel

SpecCancel == Init /\ [][NextCancel]_vars

Ended == pc \in {"done", "raised", "cancelled"}

\* C18: every connection a call opened (the agent-run stream and, when
\* used, the execute connection) is closed by the time the call ends, on
\* every exit path: normal return, non-success status, an exception raised
\* while decoding the stream, an executor exception, and cancellation at
\* any await point.
C18_NoConnectionLeftOpen ==
  /\ Ended => ~streamOpen /\ ~execOpen
  /\ streamOpen => pc = "streaming"
  /\ execOpen => pc = "executing"

\* a call cancelled while the statement was being executed
C18_Witness ==
  /\ pc = "cancelled" /\ exception = "CancelledError"
  /\ execCalls = 1 /\ stream # <<>>
  /\ ~streamOpen /\ ~execOpen

\* the event document of line i, when the line is a data: line whose
\* payload parses to an object
HasDoc(i) ==
  /\ Strip(LineTable[i]) # <<>>
  /\ Head(Strip(LineTable[i])) = MARKER
  /\ Len(PayloadOf(LineTable[i])) = 1
  /\ PayloadOf(LineTable[i])[1].t = "json"
  /\ IsDict(PayloadOf(LineTable[i])[1].doc)
DocOf(i) == PayloadOf(LineTable[i])[1].doc

NestedDelta(doc) ==
  IF IsDict(Get(doc, "data", None))
  THEN Get(Get(doc, "data", None), "delta", None)
  ELSE None

\* the delta as stated: data.delta only when the top-level field is absent
DeltaIfAbsent(doc) ==
  IF "delta" \in DOMAIN doc.fields THEN doc.fields["delta"]
  ELSE NestedDelta(doc)

\* the delta as amended: data.delta also when the top-level field is
\* present without being an object
DeltaIfNoObject(doc) ==
  IF "delta" \in DOMAIN doc.fields /\ IsDict(doc.fields["delta"])
  THEN doc.fields["delta"]
  ELSE NestedDelta(doc)

ItemsOfDelta(d) ==
  IF IsDict(d) /\ IsList(Get(d, "content", List(<<>>)))
  THEN Get(d, "content", List(<<>>)).items
  ELSE <<>>

\* the content items of a stream whose deltas are located by D
ItemsBy(D(_), st) ==
  ConcatAll([n \in 1..Len(st) |->
               IF HasDoc(st[n]) THEN ItemsOfDelta(D(DocOf(st[n]))) ELSE <<>>])

TextOfItems(items) ==
  LET fs == ConcatAll([n \in 1..Len(items) |-> TextFragments(items[n])])
  IN ConcatAll([n \in 1..Len(fs) |-> fs[n].s])

SqlOfItems(items) ==
  LET js == ConcatAll([n \in 1..Len(items) |-> JsonObjects(items[n])])
      setters == {n \in 1..Len(js) : IsStr(Get(js[n], "sql", None))}
  IN IF setters = {} THEN <<>>
     ELSE Get(js[CHOOSE n \in setters : \A m \in setters : m <= n],
              "sql", None).s

\* C19 as stated: the delta of every parsed event document is the top-level
\* `delta` field, and `data.delta` only if the top-level field is absent; a
\* frame without an object there contributes nothing.
C19_DataDeltaOnlyIfAbsent ==
  Folding =>
    /\ agg.text = TextOfItems(ItemsBy(DeltaIfAbsent, stream))
    /\ agg.sql = SqlOfItems(ItemsBy(DeltaIfAbsent, stream))

\* C19 amended: the delta is the top-level `delta` field when that is an
\* object (`data.delta` is then ignored), and `data.delta` when the
\* top-level field is absent or is not an object; if neither location holds
\* an object the frame contributes nothing.
C19_DataDeltaIfNoObject ==
  Folding =>
    /\ agg.text = TextOfItems(ItemsBy(DeltaIfNoObject, stream))
    /\ agg.sql = SqlOfItems(ItemsBy(DeltaIfNoObject, stream))

\* both locations filled (the top-level one wins), then a null top-level
\* delta (data.delta is used), then no object at either place
C19_Witness ==
  /\ pc = "drained" /\ stream = <<17, 18, 16>>
  /\ agg.text = <<"t", "e">> /\ agg.sql = <<>>

\* a data: line whose payload is empty or the [DONE] sentinel
IsSentinel(i) ==
  /\ Strip(LineTable[i]) # <<>>
  /\ Head(Strip(LineTable[i])) = MARKER
  /\ PayloadOf(LineTable[i]) \in {<<>>, <<DONE>>}

WithoutSentinels(st) == SelectSeq(st, LAMBDA i : ~IsSentinel(i))

\* C20: a `data: [DONE]` line (or a `data:` line with an empty payload)
\* does not end consumption of the stream: it changes nothing, the frames
\* that arrive after it are still folded, and a late frame can overwrite the
\* aggregated sql and thus change whether and what is executed.
C20_DoneDoesNotEndStream ==
  /\ [][\A i \in Lines :
          pc = "streaming" /\ stream' = Append(stream, i) /\ IsSentinel(i)
            => pc' = "streaming" /\ streamOpen' /\ agg' = agg]_vars
  /\ [](Folding =>
          /\ agg.text = ExpectedText(WithoutSentinels(stream))
          /\ agg.sql = ExpectedSql(WithoutSentinels(stream))
          /\ agg.citations = ExpectedCitations(WithoutSentinels(stream)))
  /\ [](pc \in {"assembled", "done"} =>
          /\ execCalls = 1 <=> ExpectedSql(WithoutSentinels(stream)) # <<>>
          /\ execCalls = 1 =>
               statement = Str(SelectSeq(ExpectedSql(WithoutSentinels(stream)),
                                         LAMBDA c : c # ";")))

\* text, [DONE], then a frame that sets the sql: the statement is executed
C20_Witness ==
  /\ pc = "done" /\ stream = <<1, 6, 2>>
  /\ execCalls = 1 /\ statement = Str(<<"A">>)
  /\ response.text = Str(<<"H", "i">>)

====
